---- MODULE Spec2Model ----
(***************************************************************************)
(* errore: the tagged-error factory (src/src/factory.ts).                  *)
(*                                                                         *)
(* A JavaScript string is a sequence of one-character strings.  A          *)
(* JavaScript value is a record [t, s, n]: t is the typeof-like tag, s the *)
(* text of a string (or the name of a native function), n the number or,   *)
(* for an object, its address in the heap.                                 *)
(***************************************************************************)
EXTENDS Integers, Sequences, FiniteSets, TLC

VARIABLES
    kinds,      \* the classes returned by createTaggedError, in registration order
    heap,       \* the Error objects constructed so far; an address is an index
    result,     \* outcome of the last constructor call: returned object or thrown error
    call        \* the library call made last on an object (toJSON, findCause, matchError)

vars == <<kinds, heap, result, call>>

----------------------------------------------------------------------------
(* Bounds of the model.                                                    *)

MaxPieces == 2      \* a template is a concatenation of at most this many pieces
MaxAlloc == 4       \* kinds registered plus objects constructed in one run of SpecKinds
MaxChain == 3       \* instances constructed in one run of SpecChain
MaxLen == 4         \* characters of a template in a run of SpecText
MaxSeq == 4         \* elements of a sequence given to partition

----------------------------------------------------------------------------
(* Characters and strings.                                                 *)

Lower == {"a","b","c","d","e","f","g","h","i","j","k","l","m",
          "n","o","p","q","r","s","t","u","v","w","x","y","z"}
Upper == {"A","B","C","D","E","F","G","H","I","J","K","L","M",
          "N","O","P","Q","R","S","T","U","V","W","X","Y","Z"}
Digit == {"0","1","2","3","4","5","6","7","8","9"}

\* [a-zA-Z_]
Alpha == Lower \cup Upper \cup {"_"}
\* [a-zA-Z0-9_]
AlphaNum == Alpha \cup Digit

DigitChar(d) == CASE d = 0 -> "0" [] d = 1 -> "1" [] d = 2 -> "2" [] d = 3 -> "3"
                  [] d = 4 -> "4" [] d = 5 -> "5" [] d = 6 -> "6" [] d = 7 -> "7"
                  [] d = 8 -> "8" [] OTHER -> "9"

RECURSIVE Decimal(_)
\* the decimal digits of a natural number, as Number.prototype.toString gives them
Decimal(n) == IF n < 10 THEN <<DigitChar(n)>>
              ELSE Decimal(n \div 10) \o <<DigitChar(n % 10)>>

RangeOf(f) == {f[i] : i \in DOMAIN f}

RECURSIVE Concat(_)
Concat(ss) == IF ss = <<>> THEN <<>> ELSE Head(ss) \o Concat(Tail(ss))

\* property names and texts used by the code
P_message == <<"m","e","s","s","a","g","e">>
P_stack == <<"s","t","a","c","k">>
P_cause == <<"c","a","u","s","e">>
P_name == <<"n","a","m","e">>
P_tag == <<"_","t","a","g">>
P_toString == <<"t","o","S","t","r","i","n","g">>
P_statusCode == <<"s","t","a","t","u","s","C","o","d","e">>
P_length == <<"l","e","n","g","t","h">>
P_toJSON == <<"t","o","J","S","O","N">>
P_findCause == <<"f","i","n","d","C","a","u","s","e">>
\* names of template variables
P_id == <<"i","d">>
P_a == <<"a">>
P_ab == <<"a","b">>
P_z == <<"z">>

----------------------------------------------------------------------------
(* Values.                                                                 *)

Undefined == [t |-> "undefined", s |-> <<>>, n |-> 0]
Str(s) == [t |-> "string", s |-> s, n |-> 0]
Num(n) == [t |-> "number", s |-> <<>>, n |-> n]
Obj(a) == [t |-> "object", s |-> <<>>, n |-> a]
NativeFn(name) == [t |-> "function", s |-> name, n |-> 0]
\* a method written in the source, and a plain object with the properties m
Method(name) == [t |-> "function", s |-> name, n |-> 1]
Rec(m) == [t |-> "record", s |-> <<>>, n |-> 0, fields |-> m]

\* the properties every plain object inherits from Object.prototype (one of them)
ObjectProto == [p \in {P_toString} |-> NativeFn(P_toString)]

\* JavaScript truthiness
Truthy(v) == CASE v.t = "undefined" -> FALSE
               [] v.t = "string" -> v.s # <<>>
               [] v.t = "number" -> v.n # 0
               [] OTHER -> TRUE

\* String(fn) of a native function: "function toString() { [native code] }"
NativeFnText(name) ==
    <<"f","u","n","c","t","i","o","n"," ">> \o name \o
    <<"(",")"," ","{"," ","[","n","a","t","i","v","e"," ","c","o","d","e","]"," ","}">>

\* String(value) for the primitive values and native functions
PrimToString(v) == CASE v.t = "string" -> v.s
                     [] v.t = "number" -> IF v.n < 0 THEN <<"-">> \o Decimal(0 - v.n)
                                                     ELSE Decimal(v.n)
                     [] v.t = "function" -> NativeFnText(v.s)
                     [] OTHER -> <<"u","n","d","e","f","i","n","e","d">>

----------------------------------------------------------------------------
(* The objects of the heap: [class, props].  class is the constructor the  *)
(* object's prototype belongs to: a registered kind k >= 1, or one of the  *)
(* classes below; props are the object's own properties.                   *)

ErrorClass == 0             \* the built-in Error
AppErrorClass == 0 - 1      \* class AppError extends Error { statusCode = 500 }
MsgOnlyClass == 0 - 2       \* class extends Error { constructor(message) { super(message) } }

EmptyMap == [p \in {} |-> Undefined]

\* m with property p set to v (an assignment this[p] = v)
Put(m, p, v) == [q \in DOMAIN m \cup {p} |-> IF q = p THEN v ELSE m[q]]

\* the methods of the class Tagged
TaggedMethods == {P_toJSON}

\* the names an error object of class c inherits from its prototype chain
Inherited(c) == {P_name, P_message, P_toString} \cup (IF c >= 1 THEN TaggedMethods ELSE {})

\* obj[p]: own property, else what the prototype chain provides
GetProp(o, p) == IF p \in DOMAIN o.props THEN o.props[p]
                 ELSE IF p = P_name THEN Str(<<"E","r","r","o","r">>)
                 ELSE IF p = P_message THEN Str(<<>>)
                 ELSE IF p = P_toString THEN NativeFn(P_toString)
                 ELSE IF p \in Inherited(o.class) THEN Method(p)
                 ELSE Undefined

\* `p in obj` for an error object: own or inherited
HasIn(o, p) == p \in DOMAIN o.props \/ p \in Inherited(o.class)

\* Error.prototype.toString applied to the object at address a
ErrorToString(a) ==
    LET nm == GetProp(heap[a], P_name)
        ms == GetProp(heap[a], P_message)
        n == IF nm.t = "undefined" THEN <<"E","r","r","o","r">> ELSE PrimToString(nm)
        m == IF ms.t = "undefined" THEN <<>> ELSE PrimToString(ms)
    IN  IF n = <<>> THEN m ELSE IF m = <<>> THEN n ELSE n \o <<":"," ">> \o m

\* String(value)
StringOf(v) == IF v.t = "object" THEN ErrorToString(v.n) ELSE PrimToString(v)

----------------------------------------------------------------------------
(* The argument of a constructor call: undefined, a plain object with the  *)
(* own properties `own`, or (when a kind is the base of another kind) the  *)
(* string that the derived constructor passes to super().                  *)

NoArgs == [t |-> "undefined", s |-> <<>>, own |-> EmptyMap]
ArgsObj(m) == [t |-> "object", s |-> <<>>, own |-> m]
ArgsStr(s) == [t |-> "string", s |-> s, own |-> EmptyMap]

\* `args` as a condition
ArgsTruthy(args) == \/ args.t = "object"
                    \/ args.t = "string" /\ args.s # <<>>

\* values[p]: own properties first, then the prototype chain
Lookup(values, p) ==
    CASE values.t = "object" ->
            IF p \in DOMAIN values.own THEN values.own[p]
            ELSE IF p \in DOMAIN ObjectProto THEN ObjectProto[p]
            ELSE Undefined
      [] values.t = "string" ->
            IF p = P_length THEN Num(Len(values.s))
            ELSE IF p \in DOMAIN ObjectProto THEN ObjectProto[p]
            ELSE Undefined
      [] OTHER -> Undefined

\* `p in args` for a plain object: own or inherited
HasProperty(args, p) == p \in DOMAIN args.own \/ p \in DOMAIN ObjectProto

----------------------------------------------------------------------------
(* The global regular expression of parseVariables and interpolateMessage: *)
(* a dollar sign, then one of [a-zA-Z_], then a maximal run of             *)
(* [a-zA-Z0-9_]; the capture group is the text after the dollar sign.      *)

\* a run that stops after the first character of the name
RunEndShort(s, j) == j - 1

RECURSIVE RunEnd(_, _)
\* the last index of the run [a-zA-Z0-9_]* that starts at j (j - 1 when it is empty)
RunEnd(s, j) == IF j <= Len(s) /\ s[j] \in AlphaNum THEN RunEnd(s, j + 1) ELSE j - 1

RECURSIVE MatchesFrom(_, _)
\* the successive matches at or after index i: [index, last], the name is s[index+1..last]
MatchesFrom(s, i) ==
    IF i > Len(s) THEN <<>>
    ELSE IF s[i] = "$" /\ i < Len(s) /\ s[i + 1] \in Alpha
         THEN LET e == RunEnd(s, i + 2)
              IN  <<[index |-> i, last |-> e]>> \o MatchesFrom(s, e + 1)
         ELSE MatchesFrom(s, i + 1)

\* all matches of the global regex in s, left to right
RegexMatches(s) == MatchesFrom(s, 1)

\* match[1], the capture group
Group1(s, m) == SubSeq(s, m.index + 1, m.last)

RECURSIVE Dedup(_)
Dedup(q) == IF q = <<>> THEN <<>>
            ELSE LET front == Dedup(SubSeq(q, 1, Len(q) - 1))
                 IN  IF q[Len(q)] \in RangeOf(front) THEN front
                     ELSE Append(front, q[Len(q)])

\* an extractor that drops repeated names
parseVariablesUnique(message) ==
    LET ms == RegexMatches(message)
    IN  Dedup([k \in 1..Len(ms) |-> Group1(message, ms[k])])

\* parseVariables: one entry per match, in order
parseVariables(message) ==
    LET ms == RegexMatches(message)
    IN  [k \in 1..Len(ms) |-> Group1(message, ms[k])]

\* the replacer with a truthiness test in place of `value !== undefined`
ReplacementIfTruthy(values, varName) ==
    LET value == Lookup(values, varName)
    IN  IF Truthy(value) THEN StringOf(value) ELSE <<"$">> \o varName

\* the replacer callback of interpolateMessage
Replacement(values, varName) ==
    LET value == Lookup(values, varName)
    IN  IF value # Undefined THEN StringOf(value) ELSE <<"$">> \o varName

RECURSIVE Stitch(_, _, _, _)
\* String.prototype.replace: text between the matches kept, each match replaced
Stitch(template, values, ms, from) ==
    IF ms = <<>> THEN SubSeq(template, from, Len(template))
    ELSE SubSeq(template, from, Head(ms).index - 1)
         \o Replacement(values, Group1(template, Head(ms)))
         \o Stitch(template, values, Tail(ms), Head(ms).last + 1)

\* an interpolation that scans its own result once more
interpolateMessageRescan(template, values) ==
    Stitch(Stitch(template, values, RegexMatches(template), 1), values,
           RegexMatches(Stitch(template, values, RegexMatches(template), 1)), 1)

interpolateMessage(template, values) ==
    Stitch(template, values, RegexMatches(template), 1)

----------------------------------------------------------------------------
(* createTaggedError and the class Tagged it returns.                      *)

\* the closure of createTaggedError: tag, messageTemplate, BaseError, varNames
createTaggedError(name, message, extends) ==
    [tag |-> name,
     messageTemplate |-> message,
     base |-> extends,
     varNames |-> parseVariables(message)]

\* the outcome of a constructor that threw (a TypeError)
Thrown == [ok |-> FALSE, props |-> EmptyMap, fields |-> {}, superMessage |-> <<>>,
           superCause |-> Undefined, ownStack |-> Undefined]

\* a constructor's normal outcome: the own properties of `this`, the names the
\* variable loop assigned, the message and the cause option that were passed to
\* super(), and this.stack as it was when the stack chaining was reached
Built(props, fields, superMessage, superCause, ownStack) ==
    [ok |-> TRUE, props |-> props, fields |-> fields, superMessage |-> superMessage,
     superCause |-> superCause, ownStack |-> ownStack]

\* the message with '' in place of the template when args is absent
MessageForEmptyDefault(messageTemplate, args) ==
    IF ArgsTruthy(args) THEN interpolateMessage(messageTemplate, args)
                        ELSE <<>>

\* args ? interpolateMessage(messageTemplate, args) : messageTemplate
MessageFor(messageTemplate, args) ==
    IF ArgsTruthy(args) THEN interpolateMessage(messageTemplate, args)
                        ELSE messageTemplate

\* an Error constructor that records the new object itself as its cause
ErrorConstructOwnCause(message, hasCause, cause, trace) ==
    LET p0 == Put(Put(EmptyMap, P_message, Str(message)), P_stack, Str(trace))
    IN  IF hasCause THEN Put(p0, P_cause, Obj(Len(heap) + 1)) ELSE p0

\* new Error(message, options): own message and stack, own cause when options has one
ErrorConstruct(message, hasCause, cause, trace) ==
    LET p0 == Put(Put(EmptyMap, P_message, Str(message)), P_stack, Str(trace))
    IN  IF hasCause THEN Put(p0, P_cause, cause) ELSE p0

RECURSIVE AssignVars(_, _, _)
\* for (const varName of varNames) if (varName in args) this[varName] = args[varName]
AssignVars(props, varNames, args) ==
    IF varNames = <<>> THEN props
    ELSE LET varName == Head(varNames)
             next == IF HasProperty(args, varName)
                     THEN Put(props, varName, Lookup(args, varName))
                     ELSE props
         IN  AssignVars(next, Tail(varNames), args)

RECURSIVE IndentFirst(_)
\* a replace without the g flag: only the first line break is indented
IndentFirst(s) == IF s = <<>> THEN <<>>
                  ELSE IF Head(s) = "\n" THEN <<"\n", " ", " ">> \o Tail(s)
                  ELSE <<Head(s)>> \o IndentFirst(Tail(s))

RECURSIVE Indent(_)
\* stack.replace(/\n/g, '\n  ')
Indent(s) == IF s = <<>> THEN <<>>
             ELSE IF Head(s) = "\n" THEN <<"\n", " ", " ">> \o Indent(Tail(s))
             ELSE <<Head(s)>> \o Indent(Tail(s))

CausedBy == <<"\n","C","a","u","s","e","d"," ","b","y",":"," ">>

\* a constructor that takes no cause from args
CauseOfNothing(args) == Undefined

\* const cause = args && 'cause' in args ? args.cause : undefined
CauseOf(args) == IF ArgsTruthy(args) /\ HasProperty(args, P_cause)
                 THEN Lookup(args, P_cause) ELSE Undefined

\* the _tag field initializer, the variable loop, then this.name = tag
Populate(K, args, props) ==
    Put(IF ArgsTruthy(args)
        THEN AssignVars(Put(props, P_tag, Str(K.tag)), K.varNames, args)
        ELSE Put(props, P_tag, Str(K.tag)),
        P_name, Str(K.tag))

\* the variables the loop assigned, added to those a Tagged base assigned
Assigned(K, args, fields) ==
    IF ArgsTruthy(args)
    THEN fields \cup {v \in RangeOf(K.varNames) : HasProperty(args, v)}
    ELSE fields

\* this.stack, or undefined
StackOf(props) == IF P_stack \in DOMAIN props THEN props[P_stack] ELSE Undefined

\* if (cause instanceof Error && cause.stack) this.stack = `${this.stack}\nCaused by: ${indented}`
ChainStack(named, fields, superMessage, cause, ownStack, causeStack) ==
    IF cause.t = "object" /\ Truthy(causeStack)
    THEN IF causeStack.t # "string"
         THEN Thrown    \* cause.stack.replace is not a function
         ELSE Built(Put(named, P_stack,
                        Str(StringOf(ownStack) \o CausedBy \o Indent(causeStack.s))),
                    fields, superMessage, cause, ownStack)
    ELSE Built(named, fields, superMessage, cause, ownStack)

\* the stack chaining, entered with `this` populated
Populated(named, fields, superMessage, cause) ==
    ChainStack(named, fields, superMessage, cause, StackOf(named),
               IF cause.t = "object" THEN GetProp(heap[cause.n], P_stack) ELSE Undefined)

\* the constructor body after super(...) returned sup
AfterSuper(K, args, interpolatedMessage, cause, sup) ==
    IF ~sup.ok THEN Thrown
    ELSE Populated(Populate(K, args, sup.props), Assigned(K, args, sup.fields),
                   interpolatedMessage, cause)

RECURSIVE TaggedConstruct(_, _, _)
RECURSIVE SuperConstruct(_, _, _, _)
RECURSIVE Constructing(_, _, _, _, _)
\* the constructor of the Tagged class of kind k, called with args; trace is the
\* stack text the engine captures for the new object
TaggedConstruct(k, args, trace) ==
    IF args.t = "string" /\ ArgsTruthy(args)
    THEN Thrown     \* 'cause' in args: TypeError, the right operand is a primitive
    ELSE Constructing(kinds[k], args, MessageFor(kinds[k].messageTemplate, args),
                      CauseOf(args), trace)

\* the constructor once interpolatedMessage and cause are computed
Constructing(K, args, interpolatedMessage, cause, trace) ==
    AfterSuper(K, args, interpolatedMessage, cause,
               SuperConstruct(K, interpolatedMessage, cause, trace))

\* super(interpolatedMessage, cause !== undefined ? { cause } : undefined)
SuperConstruct(K, interpolatedMessage, cause, trace) ==
    CASE K.base = ErrorClass ->
             Built(ErrorConstruct(interpolatedMessage, cause # Undefined, cause, trace),
                   {}, interpolatedMessage, cause, Str(trace))
      [] K.base = AppErrorClass ->
             Built(Put(ErrorConstruct(interpolatedMessage, cause # Undefined, cause, trace),
                       P_statusCode, Num(500)),
                   {}, interpolatedMessage, cause, Str(trace))
      [] K.base = MsgOnlyClass ->
             Built(ErrorConstruct(interpolatedMessage, FALSE, Undefined, trace),
                   {}, interpolatedMessage, cause, Str(trace))
      [] OTHER ->
             TaggedConstruct(K.base, ArgsStr(interpolatedMessage), trace)

\* a Tagged class that extends Error whatever opts.extends is
AncestorsOfError(c) == {c, 0}

\* a serializer that leaves out the stack of the cause
serializeCauseNoStack(cause) ==
    IF cause.t = "object"
    THEN Rec(Put(Put(EmptyMap, P_name, GetProp(heap[cause.n], P_name)),
                 P_message, GetProp(heap[cause.n], P_message)))
    ELSE cause

\* a serializer that also copies the cause of the cause
serializeCauseWithCause(cause) ==
    IF cause.t = "object"
    THEN Rec(Put(Put(Put(Put(EmptyMap, P_name, GetProp(heap[cause.n], P_name)),
                         P_message, GetProp(heap[cause.n], P_message)),
                     P_stack, GetProp(heap[cause.n], P_stack)),
                 P_cause, GetProp(heap[cause.n], P_cause)))
    ELSE cause

\* serializeCause: a record of name, message and stack for an Error, else the value
serializeCause(cause) ==
    IF cause.t = "object"
    THEN Rec(Put(Put(Put(EmptyMap, P_name, GetProp(heap[cause.n], P_name)),
                     P_message, GetProp(heap[cause.n], P_message)),
                 P_stack, GetProp(heap[cause.n], P_stack)))
    ELSE cause

RECURSIVE IncludeVars(_, _, _)
\* for (const varName of varNames) if (varName in this) json[varName] = this[varName]
IncludeVars(json, varNames, o) ==
    IF varNames = <<>> THEN json
    ELSE LET varName == Head(varNames)
             next == IF HasIn(o, varName) THEN Put(json, varName, GetProp(o, varName))
                     ELSE json
         IN  IncludeVars(next, Tail(varNames), o)

\* toJSON of the object at address a
toJSON(a) ==
    LET o == heap[a]
        json == Put(Put(Put(Put(Put(EmptyMap,
                    P_tag, GetProp(o, P_tag)),
                    P_name, GetProp(o, P_name)),
                    P_message, GetProp(o, P_message)),
                    P_cause, serializeCause(GetProp(o, P_cause))),
                    P_stack, GetProp(o, P_stack))
    IN  IncludeVars(json, kinds[o.class].varNames, o)

\* the classes an object of class c is an instance of (its prototype chain)
RECURSIVE Ancestors(_)
Ancestors(c) == IF c = ErrorClass THEN {ErrorClass}
                ELSE IF c \in {AppErrorClass, MsgOnlyClass} THEN {c, ErrorClass}
                ELSE {c} \cup Ancestors(kinds[c].base)

\* an instanceof that compares with the object's own class only
InstanceOfOwnClass(value, c) == value.t = "object" /\ heap[value.n].class = c

\* value instanceof C
InstanceOf(value, c) == value.t = "object" /\ c \in Ancestors(heap[value.n].class)

\* a type guard that compares the constructor in place of the prototype chain
isExact(k, value) == value.t = "object" /\ heap[value.n].class = k

\* a type guard that compares tags in place of prototypes
isByTag(k, value) ==
    value.t = "object" /\ GetProp(heap[value.n], P_tag) = Str(kinds[k].tag)

\* Tagged.is of kind k
is(k, value) == InstanceOf(value, k)

----------------------------------------------------------------------------
(* Inputs.                                                                 *)

\* pieces of template text: a lone dollar sign, a placeholder, a letter that can
\* extend a name, a digit, another character, and placeholders whose names are
\* properties an error object or a plain object already has
Pieces == { <<"$">>, <<"$","a">>, <<"b">>, <<"1">>, <<" ">>,
            <<"$">> \o P_name, <<"$">> \o P_tag, <<"$">> \o P_message,
            <<"$">> \o P_toString, <<"$">> \o P_cause }

RECURSIVE PieceSeqs(_)
PieceSeqs(n) == IF n = 0 THEN {<<>>}
                ELSE PieceSeqs(n - 1) \cup
                     {Append(q, p) : q \in PieceSeqs(n - 1), p \in Pieces}

\* 'User $id not found' (README, createTaggedError)
UserIdNotFound == <<"U","s","e","r"," ","$","i","d"," ","n","o","t"," ","f","o","u","n","d">>
\* 'User 123 not found'
User123NotFound == <<"U","s","e","r"," ","1","2","3"," ","n","o","t"," ","f","o","u","n","d">>
NotFoundError == <<"N","o","t","F","o","u","n","d","E","r","r","o","r">>
OtherError == <<"K">>

Templates == {Concat(q) : q \in PieceSeqs(MaxPieces)} \cup {UserIdNotFound}

\* the templates of the runs with several kinds
BasicTemplates == {<<"$","a">>}

Names == {NotFoundError, OtherError}

\* stack texts an engine may capture for a new error (header line, one frame)
Traces == {<<"@","1","\n","@","2">>}

\* how a caller fills in the value of key p
Valuations == { [kind |-> "same", v |-> Str(<<"1","2","3">>)],
                [kind |-> "same", v |-> Str(<<>>)],
                [kind |-> "same", v |-> Num(0)],
                [kind |-> "same", v |-> Num(12)],
                [kind |-> "same", v |-> Undefined],
                [kind |-> "own", v |-> Undefined] }

\* the fillings that are combined with a cause
ValuationsWithCause == { [kind |-> "same", v |-> Str(<<"1","2","3">>)],
                         [kind |-> "own", v |-> Undefined] }

ValueOf(val, p) == IF val.kind = "own" THEN Str(<<"<">> \o p \o <<">">>) ELSE val.v

\* the keys a caller may put in args for kind K: its variables, a prefix of one,
\* and a key that no template of the model declares
ArgKeys(K) == RangeOf(K.varNames) \cup {P_a, P_z}

\* the values a caller may pass as cause: a non-error value or an error of the heap
CauseValues == {Str(<<"c">>)} \cup {Obj(a) : a \in 1..Len(heap)}

ArgsFor(K) ==
    {NoArgs} \cup
    {ArgsObj([p \in S |-> ValueOf(val, p)]) :
        S \in SUBSET ArgKeys(K), val \in Valuations} \cup
    {ArgsObj([p \in S \cup {P_cause} |-> IF p = P_cause THEN c ELSE ValueOf(val, p)]) :
        S \in SUBSET ArgKeys(K), val \in ValuationsWithCause, c \in CauseValues}

\* a plain Error thrown elsewhere, with a three-line stack
PlainError ==
    [class |-> ErrorClass,
     props |-> ErrorConstruct(<<"b","o","o","m">>, FALSE, Undefined,
                              <<"E",":","b","\n","@","0","\n","@","1">>),
     args |-> NoArgs, fields |-> {}, superMessage |-> <<>>,
     superCause |-> Undefined, ownStack |-> Undefined]

\* an Error that carries no stack text (its stack was deleted)
BareError ==
    [class |-> ErrorClass,
     props |-> Put(EmptyMap, P_message, Str(<<"b","a","r","e">>)),
     args |-> NoArgs, fields |-> {}, superMessage |-> <<>>,
     superCause |-> Undefined, ownStack |-> Undefined]

\* the record of a library call: the operation, whether it returned, the object
\* and class it was called with, the walker's position and path, what it found,
\* the handler table, the handlers invoked and the structured form returned
MkCall(op, status, self, kind, cur, path, found, table, invoked, json) ==
    [op |-> op, status |-> status, self |-> self, kind |-> kind, cur |-> cur,
     path |-> path, found |-> found, table |-> table, invoked |-> invoked,
     json |-> json]

\* no library call made since the last construction
NoCall == MkCall("none", "idle", 0, 0, Undefined, <<>>, Undefined, {}, <<>>, EmptyMap)

NoResult == [status |-> "none", value |-> Undefined]

----------------------------------------------------------------------------
(* Actions.                                                                *)

\* a constructor that uses up the kind's list of variable names as it assigns them
NewConsuming(k, args, trace) ==
    LET r == TaggedConstruct(k, args, trace)
    IN  /\ heap' = Append(heap, [class |-> k, props |-> r.props, args |-> args,
                                  fields |-> r.fields,
                                  superMessage |-> r.superMessage,
                                  superCause |-> r.superCause,
                                  ownStack |-> r.ownStack])
        /\ result' = [status |-> "return", value |-> Obj(Len(heap) + 1)]
        /\ call' = NoCall
        /\ kinds' = [kinds EXCEPT ![k].varNames = <<>>]

\* new Kind(args), whole constructor; the object is allocated when it returns
New(k, args, trace) ==
    LET r == TaggedConstruct(k, args, trace)
    IN  /\ IF r.ok
           THEN /\ heap' = Append(heap, [class |-> k, props |-> r.props, args |-> args,
                                         fields |-> r.fields,
                                         superMessage |-> r.superMessage,
                                         superCause |-> r.superCause,
                                         ownStack |-> r.ownStack])
                /\ result' = [status |-> "return", value |-> Obj(Len(heap) + 1)]
           ELSE /\ heap' = heap
                /\ result' = [status |-> "throw", value |-> Str(<<"T","y","p","e","E","r","r","o","r">>)]
        /\ call' = NoCall
        /\ UNCHANGED kinds

\* err.toJSON() on the object at address a
ToJSON(a) ==
    /\ call' = MkCall("toJSON", "done", a, 0, Undefined, <<>>, Undefined, {}, <<>>,
                      toJSON(a))
    /\ UNCHANGED <<kinds, heap, result>>

\* one kind is registered with any template
RegisterOne ==
    /\ kinds = <<>>
    /\ \E t \in Templates :
          kinds' = <<createTaggedError(NotFoundError, t, ErrorClass)>>
    /\ UNCHANGED <<heap, result, call>>

\* and one instance of it is constructed
ConstructOne ==
    /\ kinds # <<>>
    /\ result = NoResult
    /\ \E args \in ArgsFor(kinds[1]), trace \in Traces : New(1, args, trace)

Init ==
    /\ kinds = <<>>
    /\ heap = <<PlainError, BareError>>
    /\ result = NoResult
    /\ call = NoCall

Next == RegisterOne \/ ConstructOne

Spec == Init /\ [][Next]_vars

\* templates whose variable is a key of the structured form, a method an error
\* inherits, or an ordinary name
JsonTemplates == { <<"$">> \o P_tag, <<"$">> \o P_name, <<"$">> \o P_message,
                   <<"$">> \o P_cause, <<"$">> \o P_stack, <<"$">> \o P_toString,
                   <<"b","$">> \o P_message, <<"$","a">>, <<"b">> }

RegisterJson ==
    /\ kinds = <<>>
    /\ \E t \in JsonTemplates :
          kinds' = <<createTaggedError(NotFoundError, t, ErrorClass)>>
    /\ UNCHANGED <<heap, result, call>>

\* the instance is serialized
ToJSONOne ==
    /\ result.status = "return"
    /\ call = NoCall
    /\ ToJSON(result.value.n)

NextJson == RegisterJson \/ ConstructOne \/ ToJSONOne

SpecJson == Init /\ [][NextJson]_vars

----------------------------------------------------------------------------
(* Cause chains: kinds with the default base and a derived kind, instances     *)
(* that wrap one another, and the calls made on the newest error.              *)

P_Error == <<"E","r","r","o","r">>

\* the kinds of the runs with cause chains, in registration order: a kind, a kind
\* whose variable is named _tag, and a kind of the first name derived from the first
ChainKinds ==
    << [name |-> NotFoundError, message |-> <<"$","a">>, extends |-> ErrorClass],
       [name |-> OtherError, message |-> <<"$">> \o P_tag, extends |-> ErrorClass],
       [name |-> NotFoundError, message |-> <<"$","a">>, extends |-> 1] >>

\* the value a caller gives variable p in these runs
ChainValue(p) == IF p = P_tag THEN Str(NotFoundError) ELSE Str(<<>>)

\* args with every variable, and no cause, a non-error cause or the newest error
\* (no cause for the derived kind, whose base never keeps one)
ChainArgsFor(K) ==
    {ArgsObj([p \in RangeOf(K.varNames) |-> ChainValue(p)])} \cup
    {ArgsObj([p \in RangeOf(K.varNames) \cup {P_cause} |->
                 IF p = P_cause THEN c ELSE ChainValue(p)]) :
        c \in IF K.base = ErrorClass THEN {Str(<<"c">>), Obj(Len(heap))} ELSE {}}

\* the error the calls are made on
Newest == Len(heap)

RegisterNext ==
    /\ Len(kinds) < Len(ChainKinds)
    /\ Len(heap) = 2
    /\ LET o == ChainKinds[Len(kinds) + 1]
       IN  kinds' = Append(kinds, createTaggedError(o.name, o.message, o.extends))
    /\ UNCHANGED <<heap, result, call>>

\* the program constructs and reassigns between calls to toJSON; the other calls
\* are the last thing a run does
ConstructChain ==
    /\ Len(kinds) = Len(ChainKinds)
    /\ call.op \in {"none", "toJSON"}
    /\ Len(heap) - 2 < MaxChain
    /\ \E k \in 1..Len(kinds) :
          \E args \in ChainArgsFor(kinds[k]), trace \in Traces : New(k, args, trace)

\* a caller assigns the newest error as the cause of the oldest instance
SetCause ==
    /\ call.op \in {"none", "toJSON"}
    /\ Len(heap) >= 3
    /\ GetProp(heap[3], P_cause) # Obj(Newest)
    /\ heap' = [heap EXCEPT ![3].props = Put(@, P_cause, Obj(Newest))]
    /\ call' = NoCall
    /\ UNCHANGED <<kinds, result>>

ToJSONNewest ==
    /\ call = NoCall
    /\ Newest >= 3
    /\ ToJSON(Newest)

\* findCause(err, Kind): the walk starts at err with nothing visited
FindStart ==
    /\ call = NoCall
    /\ \E k \in 1..Len(kinds) :
          call' = MkCall("findCause", "walking", Newest, k, Obj(Newest), <<>>,
                         Undefined, {}, <<>>, EmptyMap)
    /\ UNCHANGED <<kinds, heap, result>>

\* a walker without the visited set
FindStepUnguarded ==
    /\ call.status = "walking"
    /\ LET cur == call.cur
           path == Append(call.path, cur.n)
           cause == GetProp(heap[cur.n], P_cause)
       IN  IF is(call.kind, cur)
           THEN call' = [call EXCEPT !.status = "done", !.path = path, !.found = cur]
           ELSE IF cause.t = "object"
                THEN call' = [call EXCEPT !.path = path, !.cur = cause]
                ELSE call' = [call EXCEPT !.status = "done", !.path = path]
    /\ UNCHANGED <<kinds, heap, result>>

\* one step of the walk: the current error is marked visited and tested with
\* Kind.is; the walk goes on to its cause when that is an error not yet visited
FindStep ==
    /\ call.status = "walking"
    /\ LET cur == call.cur
           path == Append(call.path, cur.n)
           cause == GetProp(heap[cur.n], P_cause)
       IN  IF is(call.kind, cur)
           THEN call' = [call EXCEPT !.status = "done", !.path = path, !.found = cur]
           ELSE IF cause.t = "object" /\ cause.n \notin RangeOf(path)
                THEN call' = [call EXCEPT !.path = path, !.cur = cause]
                ELSE call' = [call EXCEPT !.status = "done", !.path = path]
    /\ UNCHANGED <<kinds, heap, result>>

\* err.findCause(Kind): the property is looked up on the instance and called
FindCauseMethod ==
    /\ call = NoCall
    /\ Newest >= 3
    /\ \E k \in {heap[Newest].class} :
          IF HasIn(heap[Newest], P_findCause)
          THEN call' = MkCall("err.findCause", "walking", Newest, k, Obj(Newest), <<>>,
                              Undefined, {}, <<>>, EmptyMap)
          ELSE call' = MkCall("err.findCause", "throw", Newest, k, Undefined, <<>>,
                              Undefined, {}, <<>>, EmptyMap)
    /\ UNCHANGED <<kinds, heap, result>>

\* the handlers a table may hold besides the fallback: one per kind name
Tags == {NotFoundError, OtherError}

\* the handler the table gives for the tag of err (the fallback when there is none)
HandlerFor(err, table, fallback) ==
    LET tag == GetProp(heap[err], P_tag)
    IN  IF tag.t = "string" /\ tag.s \in table THEN tag.s ELSE fallback

\* matchError(err, handlers): handlers has the keys of `table` and the key Error
MatchError ==
    /\ call = NoCall
    /\ \E err \in {Newest}, table \in SUBSET Tags :
          call' = MkCall("matchError", "done", err, 0, Undefined, <<>>, Undefined, table,
                         <<[h |-> HandlerFor(err, table, P_Error), arg |-> err]>>,
                         EmptyMap)
    /\ UNCHANGED <<kinds, heap, result>>

\* matchErrorPartial(err, handlers, fallback): the fallback is written <<>>
MatchErrorPartial ==
    /\ call = NoCall
    /\ \E err \in {Newest}, table \in SUBSET Tags :
          call' = MkCall("matchErrorPartial", "done", err, 0, Undefined, <<>>, Undefined,
                         table, <<[h |-> HandlerFor(err, table, <<>>), arg |-> err]>>,
                         EmptyMap)
    /\ UNCHANGED <<kinds, heap, result>>

NextChain == \/ RegisterNext \/ ConstructChain \/ SetCause \/ ToJSONNewest
             \/ FindStart \/ FindStep \/ FindCauseMethod
             \/ MatchError \/ MatchErrorPartial

SpecChain == Init /\ [][NextChain]_vars

\* the runs that build cause graphs and walk them; findCause is an ordinary
\* synchronous function, so a walk that was started keeps taking its steps
NextWalk == RegisterNext \/ ConstructChain \/ SetCause \/ FindStart \/ FindStep

SpecWalk == Init /\ [][NextWalk]_vars /\ WF_vars(FindStep)

\* the base classes a new kind may extend: Error (the default), the two custom
\* classes, and the kind registered last
BaseClasses == {ErrorClass, AppErrorClass, MsgOnlyClass} \cup {Len(kinds)}

\* classes and objects created by the program so far (the heap starts with the two
\* errors thrown elsewhere)
Allocated == Len(kinds) + Len(heap) - 2

\* args of the runs with several kinds: none, the variables given as '', a cause
\* that is not an error, or the newest error of the heap as cause with each
\* variable given as '' or left out
BasicArgsFor(K) ==
    {NoArgs} \cup
    {ArgsObj([p \in RangeOf(K.varNames) |-> Str(<<>>)])} \cup
    {ArgsObj([p \in {P_cause} |-> Str(<<"c">>)])} \cup
    {ArgsObj([p \in S \cup {P_cause} |->
                 IF p = P_cause THEN Obj(Len(heap)) ELSE Str(<<>>)]) :
        S \in SUBSET RangeOf(K.varNames)}

\* createTaggedError({ name, message, extends }); room is left for one instance
Register ==
    /\ Allocated < MaxAlloc - 1
    /\ \E name \in Names, t \in BasicTemplates, base \in BaseClasses :
          kinds' = Append(kinds, createTaggedError(name, t, base))
    /\ UNCHANGED <<heap, result, call>>

\* new Kind(args) for any registered kind
Construct ==
    /\ Allocated < MaxAlloc
    /\ \E k \in 1..Len(kinds) :
          \E args \in BasicArgsFor(kinds[k]), trace \in Traces : New(k, args, trace)

NextKinds == Register \/ Construct

SpecKinds == Init /\ [][NextKinds]_vars

----------------------------------------------------------------------------
(* Vocabulary of the properties.                                           *)

\* the addresses of the objects built by a Tagged constructor
Instances == {a \in 1..Len(heap) : heap[a].class >= 1}

KindOf(a) == kinds[heap[a].class]

\* the variable set of a kind
VarSet(K) == RangeOf(K.varNames)

\* the keys the caller wrote in args
Supplied(args) == IF args.t = "object" THEN DOMAIN args.own ELSE {}

\* args gives a string or a number under every variable of K
SuppliesAll(K, args) ==
    \A v \in VarSet(K) :
        v \in Supplied(args) /\ args.own[v].t \in {"string", "number"}

\* a dollar sign immediately followed by the start of an identifier
HasPlaceholder(s) ==
    \E i \in 1..Len(s) : s[i] = "$" /\ i < Len(s) /\ s[i + 1] \in Alpha

\* the placeholder that starts at index i of t, if one does: the longest run of
\* identifier characters after the dollar sign
NameAt(t, i) ==
    LET e == CHOOSE j \in i..Len(t) :
                 /\ \A x \in (i + 1)..j : t[x] \in AlphaNum
                 /\ (j = Len(t) \/ t[j + 1] \notin AlphaNum)
    IN  SubSeq(t, i + 1, e)

StartsPlaceholder(t, i) == t[i] = "$" /\ i < Len(t) /\ t[i + 1] \in Alpha

\* the names a template declares
Declared(t) == {NameAt(t, i) : i \in {x \in 1..Len(t) : StartsPlaceholder(t, x)}}

RECURSIVE Expected(_, _)
\* the message a template stands for under args: each placeholder whose name args
\* carries a value for becomes the text of that value, every other character stays
Expected(t, args) ==
    IF t = <<>> THEN <<>>
    ELSE IF StartsPlaceholder(t, 1)
         THEN LET n == NameAt(t, 1)
                  rest == SubSeq(t, Len(n) + 2, Len(t))
              IN  IF n \in Supplied(args) /\ args.own[n] # Undefined
                  THEN StringOf(args.own[n]) \o Expected(rest, args)
                  ELSE <<"$">> \o n \o Expected(rest, args)
         ELSE <<Head(t)>> \o Expected(Tail(t), args)

----------------------------------------------------------------------------
(* C1 *)

\* C1: when args gives a string or number for every variable of the kind, the
\* message of the instance holds no placeholder and every variable is a field of
\* the instance with the value that was supplied.
C1_ResolvedAndStored ==
    \A a \in Instances :
        LET o == heap[a]
            K == KindOf(a)
        IN  SuppliesAll(K, o.args) =>
               /\ ~HasPlaceholder(StringOf(o.props[P_message]))
               /\ \A v \in VarSet(K) :
                     v \in DOMAIN o.props /\ o.props[v] = o.args.own[v]

----------------------------------------------------------------------------
(* C2 *)

\* C2: the message computed by construction is the template with every occurrence
\* of each supplied placeholder replaced by the text of its value (0 and '' too)
\* and all other characters kept; 'User $id not found' with id '123' gives
\* 'User 123 not found', _tag 'NotFoundError' and field id '123'.
C2_Interpolates ==
    \A a \in Instances :
        LET o == heap[a]
            K == KindOf(a)
        IN  SuppliesAll(K, o.args) =>
               /\ o.superMessage = Expected(K.messageTemplate, o.args)
               /\ (P_message \notin VarSet(K) =>
                      o.props[P_message] = Str(Expected(K.messageTemplate, o.args)))
               /\ (/\ K.messageTemplate = UserIdNotFound
                   /\ o.args.own[P_id] = Str(<<"1","2","3">>)
                   => /\ o.props[P_message] = Str(User123NotFound)
                      /\ o.props[P_tag] = Str(NotFoundError)
                      /\ o.props[P_id] = Str(<<"1","2","3">>))

\* a repeated placeholder filled with the number 0
C2_Witness ==
    \E a \in Instances :
        /\ KindOf(a).messageTemplate = <<"$","a","$","a">>
        /\ P_a \in Supplied(heap[a].args)
        /\ heap[a].args.own[P_a] = Num(0)
        /\ heap[a].props[P_message] = Str(<<"0","0">>)

----------------------------------------------------------------------------
(* C3 *)

\* C3: the _tag and the name of every instance are the name its kind was
\* registered with, whatever the template declares and whatever args holds.
C3_TagPermanent ==
    \A a \in Instances :
        /\ heap[a].props[P_tag] = Str(KindOf(a).tag)
        /\ heap[a].props[P_name] = Str(KindOf(a).tag)

----------------------------------------------------------------------------
(* C4 *)

\* C4: a variable that args leaves out (or all of them, when args is absent) makes
\* construction neither fail nor store a field for it; its placeholder stays in
\* the message and the supplied variables are still interpolated.
C4_OmittedStaysLiteral ==
    /\ result.status # "throw"
    /\ \A a \in Instances :
          LET o == heap[a]
              K == KindOf(a)
          IN  /\ o.superMessage = Expected(K.messageTemplate, o.args)
              /\ \A v \in VarSet(K) \ Supplied(o.args) : v \notin o.fields

----------------------------------------------------------------------------
(* C5 *)

\* C5: for a template without placeholders, construction without args succeeds,
\* the message is the template and no variable field is stored.
C5_NoVariables ==
    \A a \in Instances :
        LET o == heap[a]
            K == KindOf(a)
        IN  (K.varNames = <<>> /\ o.args = NoArgs) =>
               /\ result.status = "return"
               /\ o.props[P_message] = Str(K.messageTemplate)
               /\ o.fields = {}
               /\ DOMAIN o.props = {P_message, P_stack, P_tag, P_name}

\* an instance built without args from a template that has a dollar sign but no
\* placeholder
C5_Witness ==
    \E a \in Instances :
        /\ KindOf(a).messageTemplate = <<"$","1">>
        /\ heap[a].args = NoArgs
        /\ heap[a].props[P_message] = Str(<<"$","1">>)

----------------------------------------------------------------------------
(* C6 *)

\* C6: the fields stored on an instance are exactly the variables of the kind that
\* are keys of args; any other key of args (cause aside) is not stored and does
\* not change the message.
C6_FieldsExact ==
    \A a \in Instances :
        LET o == heap[a]
            K == KindOf(a)
            onlyVars == IF o.args.t = "object"
                        THEN ArgsObj([p \in Supplied(o.args) \cap VarSet(K) |-> o.args.own[p]])
                        ELSE o.args
        IN  /\ o.fields = VarSet(K) \cap Supplied(o.args)
            /\ \A p \in Supplied(o.args) \ (VarSet(K) \cup {P_cause}) :
                  p \notin DOMAIN o.props
            /\ o.superMessage = MessageFor(K.messageTemplate, onlyVars)

----------------------------------------------------------------------------
(* C7 *)

\* the values Kind.is is asked about: every error of the heap and some non-errors
TestValues == {Obj(a) : a \in 1..Len(heap)} \cup {Undefined, Str(<<"c">>), Num(0)}

RECURSIVE NthBase(_, _)
\* the class reached from c by following `extends` n times
NthBase(c, n) == IF n = 0 \/ c < 1 THEN c ELSE NthBase(kinds[c].base, n - 1)

\* class c is kind k or was derived from it through `extends`
Extends(c, k) == \E n \in 0..Len(kinds) : NthBase(c, n) = k

\* C7 as stated: Kind.is(value) holds exactly for the objects the kind itself
\* constructed.
C7_ExactKind ==
    \A k \in 1..Len(kinds) : \A v \in TestValues :
        is(k, v) <=> (v.t = "object" /\ heap[v.n].class = k)

\* C7 as amended: Kind.is(value) holds exactly for the objects constructed by the
\* kind or by a kind derived from it through `extends`; it fails for the
\* instances of every other kind, registered under the same name or not, for
\* plain Errors and for values that are not errors.
C7_KindOrDerived ==
    \A k \in 1..Len(kinds) : \A v \in TestValues :
        is(k, v) <=> (v.t = "object" /\ Extends(heap[v.n].class, k))

\* an instance of a kind that extends another kind, recognised by the base kind,
\* next to a kind of the same name that does not recognise it
C7_Witness ==
    \E a \in Instances : \E k \in 1..Len(kinds) :
        /\ KindOf(a).base = k
        /\ is(k, Obj(a))
        /\ \E j \in 1..Len(kinds) :
              j # heap[a].class /\ kinds[j].tag = KindOf(a).tag /\ ~is(j, Obj(a))

----------------------------------------------------------------------------
(* C8 *)

\* the index in t of the k-th placeholder
PlaceholderAt(t, k) ==
    LET starts == {x \in 1..Len(t) : StartsPlaceholder(t, x)}
    IN  CHOOSE x \in starts : Cardinality({y \in starts : y < x}) = k - 1

\* the index in t of the first placeholder named n
FirstStart(t, n) ==
    LET starts == {x \in 1..Len(t) : StartsPlaceholder(t, x) /\ NameAt(t, x) = n}
    IN  CHOOSE x \in starts : \A y \in starts : x <= y

----------------------------------------------------------------------------
(* C9 *)

\* C9: the variables of a kind are the maximal identifier runs that follow a
\* dollar sign and start with a letter or underscore; a dollar sign followed by a
\* digit, another character or nothing declares nothing and stays in the message;
\* supplying a value for a prefix of a name ('a' for '$ab') resolves nothing.
C9_MaximalRun ==
    /\ \A k \in 1..Len(kinds) :
          VarSet(kinds[k]) = Declared(kinds[k].messageTemplate)
    /\ \A a \in Instances :
          LET o == heap[a]
              t == KindOf(a).messageTemplate
          IN  (Declared(t) \cap (Supplied(o.args) \cup DOMAIN ObjectProto) = {}) =>
                 /\ o.superMessage = t
                 /\ o.props[P_message] = Str(t)
                 /\ o.fields = {}

\* '$ab' constructed with a value for 'a' only
C9_Witness ==
    \E a \in Instances :
        /\ KindOf(a).messageTemplate = <<"$","a","b">>
        /\ KindOf(a).varNames = <<P_ab>>
        /\ P_a \in Supplied(heap[a].args)
        /\ heap[a].args.own[P_a] = Str(<<"1","2","3">>)
        /\ heap[a].props[P_message] = Str(<<"$","a","b">>)

----------------------------------------------------------------------------
(* C10 *)

\* C10: an instance constructed with a cause has exactly that value as its cause,
\* and an instance constructed without one has no cause; for the default base and
\* for every custom base.
C10_CauseKept ==
    \A a \in Instances :
        LET o == heap[a]
            given == /\ P_cause \in Supplied(o.args)
                     /\ o.args.own[P_cause] # Undefined
        IN  /\ given => /\ P_cause \in DOMAIN o.props
                        /\ o.props[P_cause] = o.args.own[P_cause]
            /\ ~given => P_cause \notin DOMAIN o.props

----------------------------------------------------------------------------
(* C11 *)

\* the value args carries under `cause` (undefined when there is none)
SuppliedCause(args) ==
    IF P_cause \in Supplied(args) THEN args.own[P_cause] ELSE Undefined

\* the number of line breaks of s before index i
BreaksBefore(s, i) == Cardinality({j \in 1..(i - 1) : s[j] = "\n"})

\* r is s with two spaces inserted after every line break
IsIndented(r, s) ==
    /\ Len(r) = Len(s) + 2 * BreaksBefore(s, Len(s) + 1)
    /\ \A i \in 1..Len(s) :
          LET at == i + 2 * BreaksBefore(s, i)
          IN  /\ r[at] = s[i]
              /\ s[i] = "\n" => r[at + 1] = " " /\ r[at + 2] = " "

\* C11: when the cause is an error that carries trace text, the trace of the
\* instance is its own trace, then a line 'Caused by: ' with the trace of the cause,
\* every further line of that trace indented by two spaces; when the cause is
\* absent, not an error or without trace text, the trace is the instance's own.
C11_StackChaining ==
    \A a \in Instances :
        LET o == heap[a]
            c == SuppliedCause(o.args)
            causeTrace == IF c.t = "object" THEN GetProp(heap[c.n], P_stack)
                          ELSE Undefined
            carries == causeTrace.t = "string" /\ causeTrace.s # <<>>
            st == o.props[P_stack]
            head == StringOf(o.ownStack) \o <<"\n">> \o
                    <<"C","a","u","s","e","d"," ","b","y",":"," ">>
        IN  /\ P_stack \notin VarSet(KindOf(a)) => o.ownStack \in {Str(tr) : tr \in Traces}
            /\ carries =>
                  /\ st.t = "string"
                  /\ Len(st.s) >= Len(head)
                  /\ SubSeq(st.s, 1, Len(head)) = head
                  /\ IsIndented(SubSeq(st.s, Len(head) + 1, Len(st.s)), causeTrace.s)
            /\ ~carries => st = o.ownStack

\* an instance whose cause is the plain Error with the three-line stack
C11_Witness ==
    \E a \in Instances :
        /\ SuppliedCause(heap[a].args) = Obj(1)
        /\ heap[a].props[P_stack] =
              Str(<<"@","1","\n","@","2","\n","C","a","u","s","e","d"," ","b","y",":"," ",
                    "E",":","b","\n"," "," ","@","0","\n"," "," ","@","1">>)

----------------------------------------------------------------------------
(* C12 *)

\* C12: an instance of a kind declared with a custom base B is an instance of the
\* class it was constructed with, of the kind, of B and of Error; B's constructor
\* received the interpolated message, and the cause as option when one was
\* supplied; the instance has the fields B's constructor sets.
C12_CustomBase ==
    \A a \in Instances :
        LET o == heap[a]
            K == KindOf(a)
            B == K.base
        IN  B # ErrorClass =>
               /\ \A c \in {o.class, B, ErrorClass} : InstanceOf(Obj(a), c)
               /\ \A k \in 1..Len(kinds) : Extends(o.class, k) => InstanceOf(Obj(a), k)
               /\ o.superMessage = Expected(K.messageTemplate, o.args)
               /\ o.superCause = SuppliedCause(o.args)
               /\ {P_message, P_stack} \subseteq DOMAIN o.props
               /\ B = AppErrorClass => /\ P_statusCode \in DOMAIN o.props
                                       /\ o.props[P_statusCode] = Num(500)
               /\ B >= 1 => {P_tag, P_name} \subseteq DOMAIN o.props

\* an instance of a kind that extends AppError, built with a cause, and an
\* instance of a kind that extends another kind
C12_Witness ==
    /\ \E a \in Instances :
          /\ KindOf(a).base = AppErrorClass
          /\ heap[a].superCause = Str(<<"c">>)
          /\ heap[a].props[P_statusCode] = Num(500)
          /\ InstanceOf(Obj(a), AppErrorClass)
    /\ \E a \in Instances : KindOf(a).base >= 1

----------------------------------------------------------------------------
(* C13 *)

----------------------------------------------------------------------------
(* C14 *)

\* the structured form j has a defined entry under p
HasEntry(j, p) == p \in DOMAIN j /\ j[p] # Undefined

\* the object o stores a defined value under p
Stores(o, p) == p \in DOMAIN o.props /\ o.props[p] # Undefined

\* C14: the structured form has the instance's _tag and message, and for every
\* variable of the kind it has an entry exactly when the instance stores that
\* field, with the stored value; also for variables named like the keys of the
\* structured form.
C14_FaithfulProjection ==
    call.op = "toJSON" =>
        LET o == heap[call.self]
            j == call.json
        IN  /\ j[P_tag] = o.props[P_tag]
            /\ j[P_message] = o.props[P_message]
            /\ \A v \in VarSet(kinds[o.class]) :
                  /\ HasEntry(j, v) <=> Stores(o, v)
                  /\ Stores(o, v) => j[v] = o.props[v]

----------------------------------------------------------------------------
(* C15 *)

\* in one step no registered kind changes and no args of a construction changes
KindsAndArgsKept ==
    /\ \A k \in 1..Len(kinds) : k <= Len(kinds') /\ kinds'[k] = kinds[k]
    /\ \A a \in 1..Len(heap) : a <= Len(heap') /\ heap'[a].args = heap[a].args

\* two instances of one kind built with equal args agree on message, tag and fields
SameArgsSameInstance ==
    \A a, b \in Instances :
        (heap[a].class = heap[b].class /\ heap[a].args = heap[b].args) =>
            /\ heap[a].props[P_message] = heap[b].props[P_message]
            /\ heap[a].props[P_tag] = heap[b].props[P_tag]
            /\ heap[a].fields = heap[b].fields
            /\ \A v \in heap[a].fields : heap[a].props[v] = heap[b].props[v]

----------------------------------------------------------------------------
(* C16 *)

RECURSIVE NthCause(_, _)
\* the error reached from a by following n cause links (0 when the chain ends
\* before that, at an absent cause or one that is not an error)
NthCause(a, n) ==
    IF n = 0 \/ a = 0 THEN a
    ELSE LET c == GetProp(heap[a], P_cause)
         IN  IF c.t = "object" THEN NthCause(c.n, n - 1) ELSE 0

\* the error at address x was constructed by kind k or a kind derived from it
Matches(x, k) == x # 0 /\ Extends(heap[x].class, k)

\* the numbers of links after which the chain from a reaches a match of k
Hits(a, k) == {n \in 0..Len(heap) : Matches(NthCause(a, n), k)}

\* C16: findCause returns the nearest error of the chain (the start included)
\* that the kind recognises, and absent when the chain holds none; the chain
\* ends at a cause that is not an error.
C16_NearestMatch ==
    (call.op = "findCause" /\ call.status = "done") =>
        LET hits == Hits(call.self, call.kind)
        IN  IF hits = {} THEN call.found = Undefined
            ELSE \E n \in hits :
                    /\ \A m \in hits : n <= m
                    /\ call.found = Obj(NthCause(call.self, n))

\* findCause as stated for the chain built by construction: an instance built
\* with an error as cause leads the walk to that error.
C16_Witness ==
    /\ call.op = "findCause" /\ call.status = "done"
    /\ call.found = Obj(NthCause(call.self, 2))
    /\ call.found.n \in Instances
    /\ call.path = <<call.self, NthCause(call.self, 1), NthCause(call.self, 2)>>
    /\ Cardinality(RangeOf(call.path)) = 3

----------------------------------------------------------------------------
(* C17 *)

\* C17: a walk visits no error twice, answers absent when no error it can reach
\* is recognised by the kind, and every walk that was started ends, on cyclic
\* cause graphs too.
C17_Terminates ==
    /\ [](call.op = "findCause" =>
             \A i, j \in 1..Len(call.path) : i # j => call.path[i] # call.path[j])
    /\ ((call.op = "findCause" /\ call.status = "walking")
           ~> (/\ call.op = "findCause" /\ call.status = "done"
               /\ Hits(call.self, call.kind) = {} => call.found = Undefined))

\* a finished walk around a cycle of three instances that found nothing
C17_Witness ==
    /\ call.op = "findCause" /\ call.status = "done"
    /\ call.found = Undefined
    /\ NthCause(call.self, 3) = call.self
    /\ Len(call.path) = 3
    /\ Cardinality(RangeOf(call.path)) = 3

----------------------------------------------------------------------------
(* C18 *)

\* C18: every instance has a findCause method, and calling it returns what the
\* standalone findCause returns for the same error and kind.
C18_MethodExposed ==
    call.op = "err.findCause" =>
        /\ HasIn(heap[call.self], P_findCause)
        /\ call.status # "throw"

----------------------------------------------------------------------------
(* C19 *)

\* the name under which the error at address a was made: the name of its kind,
\* none (the empty text) for a plain Error
KindTag(a) == IF a \in Instances THEN KindOf(a).tag ELSE <<>>

\* C19: matchError invokes exactly one handler, once, with the error: the one
\* listed under the name of the error's kind, or the fallback Error when the
\* table lists none (a plain Error, an unlisted kind); it raises nothing.
C19_Dispatch ==
    call.op = "matchError" =>
        /\ call.status = "done"
        /\ call.invoked =
              <<[h |-> IF KindTag(call.self) \in call.table THEN KindTag(call.self)
                      ELSE P_Error,
                 arg |-> call.self]>>

----------------------------------------------------------------------------
(* C20 *)

\* C20: matchErrorPartial invokes the handler listed under the name of the
\* error's kind, and the fallback function for every error whose kind the table
\* does not list, a plain Error included.
C20_PartialDispatch ==
    call.op = "matchErrorPartial" =>
        call.invoked =
            <<[h |-> IF KindTag(call.self) \in call.table THEN KindTag(call.self)
                    ELSE <<>>,
               arg |-> call.self]>>

----------------------------------------------------------------------------
(* C25 *)

\* C25: after construction the message of the instance is the interpolated
\* message and its trace is the one captured for it, also when the template has a
\* variable named like a property of the instance (message, stack, name);
\* 'b$message' with message '123' gives the message 'b123'.
C25_MessageKept ==
    \A a \in Instances :
        LET o == heap[a]
        IN  /\ o.props[P_message] = Str(MessageFor(KindOf(a).messageTemplate, o.args))
            /\ o.ownStack \in {Str(tr) : tr \in Traces}

----------------------------------------------------------------------------
(* The type-level extractor (ExtractVars, ConsumeVar), evaluated by the    *)
(* compiler on the template's literal type, and runs over every short text *)
(* as template.                                                            *)

RECURSIVE ConsumeVarLetters(_, _)
\* a ConsumeVar that accepts Alpha only: a digit ends the name
ConsumeVarLetters(S, Acc) ==
    IF S # <<>>
    THEN IF Head(S) \in Alpha
         THEN ConsumeVarLetters(Tail(S), Acc \o <<Head(S)>>)
         ELSE [var |-> Acc, rest |-> S]
    ELSE [var |-> Acc, rest |-> <<>>]

RECURSIVE ConsumeVar(_, _)
\* S extends `${infer C}${infer Rest}` ? C extends AlphaNum ? ConsumeVar<Rest, `${Acc}${C}`>
\*   : { var: Acc; rest: S } : { var: Acc; rest: '' }
ConsumeVar(S, Acc) ==
    IF S # <<>>
    THEN IF Head(S) \in AlphaNum
         THEN ConsumeVar(Tail(S), Acc \o <<Head(S)>>)
         ELSE [var |-> Acc, rest |-> S]
    ELSE [var |-> Acc, rest |-> <<>>]

\* the text after the first dollar sign of S: `${string}$${infer AfterDollar}`
AfterFirstDollar(S) ==
    LET i == CHOOSE x \in 1..Len(S) : S[x] = "$" /\ \A y \in 1..(x - 1) : S[y] # "$"
    IN  SubSeq(S, i + 1, Len(S))

\* the union of names built from the parts: V extends '' ? ExtractVars<R> : V | ExtractVars<R>
UnionWith(V, names) == IF V = <<>> THEN names ELSE {V} \cup names

RECURSIVE ExtractVars(_)
\* the union type ExtractVars<S>, as the set of its members (never is the empty set)
ExtractVars(S) ==
    IF \E x \in 1..Len(S) : S[x] = "$"
    THEN IF AfterFirstDollar(S) # <<>> /\ Head(AfterFirstDollar(S)) \in Alpha
         THEN UnionWith(ConsumeVar(AfterFirstDollar(S), <<>>).var,
                        ExtractVars(ConsumeVar(AfterFirstDollar(S), <<>>).rest))
         ELSE ExtractVars(AfterFirstDollar(S))
    ELSE {}

\* the characters of the texts: a letter, another letter, a digit, the underscore,
\* the dollar sign and a character of no class
TextChars == {"a", "b", "1", "_", "$", " "}

\* every text of at most MaxLen characters
Texts == UNION {[1..n -> TextChars] : n \in 0..MaxLen}

P_b == <<"b">>

\* what a caller gives for a and for b: nothing, a plain text, or a text that reads
\* like the placeholder of the other variable
TextArgs ==
    {NoArgs} \cup
    {ArgsObj([p \in S |-> IF p = P_a THEN va ELSE vb]) :
        S \in SUBSET {P_a, P_b},
        va \in {Str(<<"x">>), Str(<<"$","b">>)},
        vb \in {Str(<<"y">>), Str(<<"$","a">>)}}

\* createTaggedError with any text as message template
RegisterText ==
    /\ kinds = <<>>
    /\ \E t \in Texts :
          kinds' = <<createTaggedError(NotFoundError, t, ErrorClass)>>
    /\ UNCHANGED <<heap, result, call>>

\* the compiler computes the constructor's parameter type for the declared kind
Compile ==
    /\ kinds # <<>>
    /\ result = NoResult
    /\ call = NoCall
    /\ call' = MkCall("ExtractVars", "done", 0, 1, Undefined, <<>>, Undefined,
                      ExtractVars(kinds[1].messageTemplate), <<>>, EmptyMap)
    /\ UNCHANGED <<kinds, heap, result>>

\* one instance of the kind is constructed
ConstructText ==
    /\ kinds # <<>>
    /\ result = NoResult
    /\ \E args \in TextArgs, trace \in Traces : New(1, args, trace)

NextText == RegisterText \/ Compile \/ ConstructText

SpecText == Init /\ [][NextText]_vars

----------------------------------------------------------------------------
(* C26 *)

\* C26: interpolation is one pass over the template, left to right: the text of a
\* supplied value is inserted as it is, also when it reads like a placeholder,
\* and is never scanned again; '$a$b' with a = '$b' and b = 'y' gives '$by'.
C26_SinglePass ==
    \A a \in Instances :
        LET o == heap[a]
            t == KindOf(a).messageTemplate
        IN  /\ o.superMessage = Expected(t, o.args)
            /\ (/\ t = <<"$","a","$","b">>
                /\ Supplied(o.args) = {P_a, P_b}
                /\ o.args.own[P_a] = Str(<<"$","b">>)
                /\ o.args.own[P_b] = Str(<<"y">>))
               => o.superMessage = <<"$","b","y">>

\* an instance of '$a$b' built with a = '$b' and b = 'y'
C26_Witness ==
    \E a \in Instances :
        /\ KindOf(a).messageTemplate = <<"$","a","$","b">>
        /\ Supplied(heap[a].args) = {P_a, P_b}
        /\ heap[a].args.own[P_a] = Str(<<"$","b">>)
        /\ heap[a].args.own[P_b] = Str(<<"y">>)
        /\ heap[a].props[P_message] = Str(<<"$","b","y">>)

----------------------------------------------------------------------------
(* C27 *)

\* the names interpolateMessage replaces in t: giving a value under that name
\* alone changes the text
Replaced(t) ==
    {n \in {SubSeq(t, i, j) : i, j \in 1..Len(t)} \ {<<>>} :
        interpolateMessage(t, ArgsObj([p \in {n} |-> Str(<<"#">>)])) # t}

\* C27: for every template the names the constructor's parameter type requires
\* (ExtractVars) are the names parseVariables finds and the names
\* interpolateMessage replaces, also with '$$', '$' before a digit and '$' at the end.
C27_SameVariables ==
    call.op = "ExtractVars" =>
        /\ call.table = RangeOf(kinds[1].varNames)
        /\ call.table = Replaced(kinds[1].messageTemplate)

\* the type computed for '$$a$': two dollar signs in a row and one at the end
C27_Witness ==
    /\ call.op = "ExtractVars"
    /\ kinds[1].messageTemplate = <<"$","$","a","$">>
    /\ call.table = {P_a}

----------------------------------------------------------------------------
(* C28 *)

\* no error is reached from itself through cause links
Acyclic == \A a \in 1..Len(heap) : \A n \in 1..Len(heap) : NthCause(a, n) # a

\* a step that leaves the cause of every existing error as it is
CausesKept ==
    \A a \in 1..Len(heap) :
        a <= Len(heap') /\ GetProp(heap'[a], P_cause) = GetProp(heap[a], P_cause)

\* C28: construction alone never closes a cycle of cause links: the graph has no
\* cycle at the start, and a step that reassigns no cause (a construction whose
\* cause is a value that exists already) keeps it without one; only a
\* reassignment of cause after construction makes a cycle.
C28_AcyclicByConstruction ==
    /\ Acyclic
    /\ [][(Acyclic /\ CausesKept) => Acyclic']_vars

\* three instances in a row, each the cause of the next, and no cycle
C28_Witness ==
    /\ Acyclic
    /\ Newest = 5
    /\ NthCause(Newest, 1) = 4
    /\ NthCause(Newest, 2) = 3

----------------------------------------------------------------------------
(* C29 *)

----------------------------------------------------------------------------
(* The try wrappers (tryFn, tryAsync), the combinators (map, mapError,     *)
(* andThen, tap) and partition, applied to payloads and to the errors of   *)
(* the heap.                                                               *)

P_UnhandledError == <<"U","n","h","a","n","d","l","e","d","E","r","r","o","r">>

\* the kinds of these runs: a kind the catch mapping constructs, and the default
\* kind that wraps a caught error
TryKinds ==
    << [name |-> NotFoundError, message |-> <<"$","a">>, extends |-> ErrorClass],
       [name |-> P_UnhandledError, message |-> <<"U">>, extends |-> ErrorClass] >>

\* the object allocated by new Kind(args) when the constructor returned r
Allocate(k, args, r) ==
    [class |-> k, props |-> r.props, args |-> args, fields |-> r.fields,
     superMessage |-> r.superMessage, superCause |-> r.superCause,
     ownStack |-> r.ownStack]

\* value instanceof Error
isError(value) == InstanceOf(value, ErrorClass)
isOk(value) == ~isError(value)

\* successful results
Payloads == {Num(1), Num(2)}
\* the errors that exist
ErrorValues == {Obj(a) : a \in 1..Len(heap)}
\* values that can be thrown and are not errors: a string, undefined, a plain object
NonErrors == {Str(<<"c">>), Undefined, Rec(EmptyMap)}

\* how the wrapped operation ends: it returns a payload or an error value, or it
\* raises an error or something else (for tryAsync: the promise resolves or rejects)
Outcomes ==
    {[how |-> "return", value |-> v] : v \in Payloads \cup ErrorValues} \cup
    {[how |-> "throw", value |-> v] : v \in ErrorValues \cup NonErrors}

\* the record of a call of a wrapper or combinator: what it was given, whether it
\* returned or raised and which value, and the functions it invoked
ValueCall(op, supplied, given, fnResult, invoked, status, value) ==
    [supplied |-> supplied, given |-> given, fnResult |-> fnResult,
     payloads |-> <<>>, errors |-> <<>>] @@
    MkCall(op, status, 0, 0, Undefined, <<>>, value, {}, invoked, EmptyMap)

\* a wrapper that turns every raised value into an error value
TryCatchingAll(w, supplied, outcome, trace) ==
    IF outcome.how = "return"
    THEN /\ call' = ValueCall(w, supplied, outcome, Undefined, <<>>, "return", outcome.value)
         /\ UNCHANGED <<kinds, heap, result>>
    ELSE /\ heap' = Append(heap,
                       Allocate(2, ArgsObj([p \in {P_cause} |-> outcome.value]),
                                TaggedConstruct(2, ArgsObj([p \in {P_cause} |-> outcome.value]),
                                                trace)))
         /\ call' = ValueCall(w, supplied, outcome, Undefined, <<>>, "return",
                              Obj(Len(heap) + 1))
         /\ UNCHANGED <<kinds, result>>

\* the arguments the catch mapping (supplied) or the default wrapping gives the
\* constructor for the caught error e
WrapArgs(supplied, e) ==
    IF supplied
    THEN ArgsObj([p \in {P_a, P_cause} |-> IF p = P_cause THEN e ELSE Str(<<>>)])
    ELSE ArgsObj([p \in {P_cause} |-> e])

\* tryFn / tryAsync: the operation is invoked; a normal result is returned
\* unchanged; a raised value that is not an Error is raised again; a raised Error is
\* given to the catch mapping (here e => new NotFoundError({ a: '', cause: e })) when
\* one was supplied, else wrapped in new UnhandledError({ cause: e })
Try(w, supplied, outcome, trace) ==
    IF outcome.how = "return"
    THEN /\ call' = ValueCall(w, supplied, outcome, Undefined, <<>>, "return", outcome.value)
         /\ UNCHANGED <<kinds, heap, result>>
    ELSE IF ~isError(outcome.value)
    THEN /\ call' = ValueCall(w, supplied, outcome, Undefined, <<>>, "throw", outcome.value)
         /\ UNCHANGED <<kinds, heap, result>>
    ELSE /\ heap' = Append(heap,
                       Allocate(IF supplied THEN 1 ELSE 2, WrapArgs(supplied, outcome.value),
                                TaggedConstruct(IF supplied THEN 1 ELSE 2,
                                                WrapArgs(supplied, outcome.value), trace)))
         /\ call' = ValueCall(w, supplied, outcome, Undefined,
                              IF supplied THEN <<[h |-> "catch", arg |-> outcome.value]>>
                              ELSE <<>>,
                              "return", Obj(Len(heap) + 1))
         /\ UNCHANGED <<kinds, result>>

\* map, andThen, tap: fn is applied to a payload only; mapError: to an error only;
\* tap returns the value, the others what fn returned (r)
Combine(c, v, r) ==
    IF (c = "mapError") = isError(v)
    THEN ValueCall(c, TRUE, v, r, <<[h |-> "fn", arg |-> v]>>, "return",
                   IF c = "tap" THEN v ELSE r)
    ELSE ValueCall(c, TRUE, v, r, <<>>, "return", v)

\* a partition that collects the errors last to first
partitionReversing(sequence) ==
    [payloads |-> SelectSeq(sequence, isOk),
     errors |-> [i \in 1..Len(SelectSeq(sequence, isError)) |->
                    SelectSeq(sequence, isError)[Len(SelectSeq(sequence, isError)) + 1 - i]]]

\* partition: the payloads and the errors of the sequence, each in input order
partition(sequence) ==
    [payloads |-> SelectSeq(sequence, isOk), errors |-> SelectSeq(sequence, isError)]

RegisterTry ==
    /\ Len(kinds) < Len(TryKinds)
    /\ Len(heap) = 2
    /\ LET o == TryKinds[Len(kinds) + 1]
       IN  kinds' = Append(kinds, createTaggedError(o.name, o.message, o.extends))
    /\ UNCHANGED <<heap, result, call>>

\* the program has made one tagged error, with or without a cause
ConstructTry ==
    /\ Len(kinds) = Len(TryKinds)
    /\ Len(heap) = 2
    /\ call = NoCall
    /\ \E args \in {WrapArgs(TRUE, Undefined), WrapArgs(TRUE, Obj(1))}, trace \in Traces :
          New(1, args, trace)

TryWrapper ==
    /\ Len(kinds) = Len(TryKinds)
    /\ call = NoCall
    /\ \E w \in {"tryFn", "tryAsync"}, supplied \in BOOLEAN, outcome \in Outcomes,
          trace \in Traces :
          Try(w, supplied, outcome, trace)

\* what fn returns when it is invoked: a payload or an error value
FnResults == {Str(<<"f">>), Obj(1)}

Combinator ==
    /\ Len(kinds) = Len(TryKinds)
    /\ call = NoCall
    /\ \E c \in {"map", "mapError", "andThen", "tap"},
          v \in Payloads \cup ErrorValues, r \in FnResults :
          call' = Combine(c, v, r)
    /\ UNCHANGED <<kinds, heap, result>>

\* the sequences given to partition
InputSequences == UNION {[1..n -> Payloads \cup ErrorValues] : n \in 0..MaxSeq}

Partition ==
    /\ Len(kinds) = Len(TryKinds)
    /\ call = NoCall
    /\ \E sequence \in InputSequences :
          call' = [payloads |-> partition(sequence).payloads,
                   errors |-> partition(sequence).errors] @@
                  ValueCall("partition", TRUE, sequence, Undefined, <<>>, "return",
                            Undefined)
    /\ UNCHANGED <<kinds, heap, result>>

NextTry == RegisterTry \/ ConstructTry \/ TryWrapper \/ Combinator \/ Partition

SpecTry == Init /\ [][NextTry]_vars

----------------------------------------------------------------------------
(* C21 *)

\* a value that is an error: every object of the heap is an Error, a plain one or
\* one built by a Tagged constructor
IsErrorValue(v) == v.t = "object"

TryWrappers == {"tryFn", "tryAsync"}

\* C21: when the wrapped operation raises a value that is not an Error, the
\* wrapper raises that same value, returns nothing, does not invoke the catch
\* mapping and constructs no error (the heap holds at most the three errors made
\* before the call), whether a mapping was supplied or not.
C21_NonErrorsReraised ==
    (/\ call.op \in TryWrappers
     /\ call.given.how = "throw"
     /\ ~IsErrorValue(call.given.value))
    => /\ call.status = "throw"
       /\ call.found = call.given.value
       /\ call.invoked = <<>>
       /\ Len(heap) <= 3

\* tryAsync with a catch mapping around an operation that rejects with a string
C21_Witness ==
    /\ call.op = "tryAsync"
    /\ call.supplied
    /\ call.given = [how |-> "throw", value |-> Str(<<"c">>)]
    /\ call.status = "throw"
    /\ call.found = Str(<<"c">>)

----------------------------------------------------------------------------
(* C22 *)

\* C22: a normal result of the operation is returned unchanged and the catch
\* mapping is not invoked; when the operation raises an Error the wrapper returns:
\* with a catch mapping, what the mapping made of that error, invoked once; without
\* one, an UnhandledError whose cause is the error that was raised.
C22_TryResults ==
    call.op \in TryWrappers =>
        LET v == call.given.value
        IN  /\ call.given.how = "return" =>
                  /\ call.status = "return"
                  /\ call.found = v
                  /\ call.invoked = <<>>
            /\ (call.given.how = "throw" /\ IsErrorValue(v)) =>
                  /\ call.status = "return"
                  /\ call.found = Obj(Newest)
                  /\ IF call.supplied
                     THEN /\ call.invoked = <<[h |-> "catch", arg |-> v]>>
                          /\ KindOf(Newest).tag = NotFoundError
                          /\ heap[Newest].args = WrapArgs(TRUE, v)
                     ELSE /\ call.invoked = <<>>
                          /\ KindOf(Newest).tag = P_UnhandledError
                          /\ GetProp(heap[Newest], P_tag) = Str(P_UnhandledError)
                          /\ GetProp(heap[Newest], P_cause) = v

\* tryFn without a catch mapping around an operation that throws a tagged error
C22_Witness ==
    /\ call.op = "tryFn"
    /\ ~call.supplied
    /\ call.given = [how |-> "throw", value |-> Obj(3)]
    /\ heap[3].class = 1
    /\ call.found = Obj(4)
    /\ heap[4].class = 2
    /\ heap[4].props[P_cause] = Obj(3)

----------------------------------------------------------------------------
(* C23 *)

\* C23: map, andThen and tap return an error value itself and do not invoke fn;
\* for a payload map and andThen return what fn returned and tap invokes fn once
\* and returns the payload; mapError applies fn to errors only and returns
\* payloads unchanged.
C23_ShortCircuit ==
    call.op \in {"map", "mapError", "andThen", "tap"} =>
        LET v == call.given
            applied == <<[h |-> "fn", arg |-> v]>>
        IN  /\ call.status = "return"
            /\ (call.op \in {"map", "andThen"} /\ IsErrorValue(v)) =>
                  call.found = v /\ call.invoked = <<>>
            /\ (call.op \in {"map", "andThen"} /\ ~IsErrorValue(v)) =>
                  call.found = call.fnResult /\ call.invoked = applied
            /\ (call.op = "tap" /\ IsErrorValue(v)) =>
                  call.found = v /\ call.invoked = <<>>
            /\ (call.op = "tap" /\ ~IsErrorValue(v)) =>
                  call.found = v /\ call.invoked = applied
            /\ (call.op = "mapError" /\ IsErrorValue(v)) =>
                  call.found = call.fnResult /\ call.invoked = applied
            /\ (call.op = "mapError" /\ ~IsErrorValue(v)) =>
                  call.found = v /\ call.invoked = <<>>

\* andThen given a tagged error: the error comes back and fn was not invoked
C23_Witness ==
    /\ call.op = "andThen"
    /\ call.given = Obj(3)
    /\ heap[3].class = 1
    /\ call.found = Obj(3)
    /\ call.invoked = <<>>

----------------------------------------------------------------------------
(* C24 *)

\* the number of errors (e = TRUE) or payloads (e = FALSE) among the first i
\* elements of s
CountUpTo(s, i, e) == Cardinality({j \in 1..i : IsErrorValue(s[j]) = e})

\* C24: partition returns the payloads and the errors of the sequence: the
\* lengths add up to the length of the input, and the n-th error (payload) of the
\* input is the n-th element of errors (payloads), so that every element is in
\* exactly one output, in input order; [1, errA, 2, errB] gives ([1, 2], [errA, errB]).
C24_Partition ==
    call.op = "partition" =>
        LET s == call.given
        IN  /\ Len(call.payloads) + Len(call.errors) = Len(s)
            /\ \A i \in 1..Len(s) :
                  LET n == CountUpTo(s, i, IsErrorValue(s[i]))
                      out == IF IsErrorValue(s[i]) THEN call.errors ELSE call.payloads
                  IN  n <= Len(out) /\ out[n] = s[i]
            /\ s = <<Num(1), Obj(3), Num(2), Obj(1)>> =>
                  /\ call.payloads = <<Num(1), Num(2)>>
                  /\ call.errors = <<Obj(3), Obj(1)>>

\* partition of a payload, a tagged error, another payload and a plain Error
C24_Witness ==
    /\ call.op = "partition"
    /\ Len(heap) = 3
    /\ call.given = <<Num(1), Obj(3), Num(2), Obj(1)>>
    /\ call.payloads = <<Num(1), Num(2)>>
    /\ call.errors = <<Obj(3), Obj(1)>>

====
